---- MODULE Spec2Model ----
(***************************************************************************)
(* Model of src/main.py: the PDF upload handlers (upload_summary,          *)
(* upload_questions, test_extract), the dual-decoder text extraction       *)
(* (extract_text_from_pdf) and the parsing of the generated question list  *)
(* (generate_questions).                                                   *)
(*                                                                         *)
(* Text (str) is a sequence of one-character strings.  A message built by  *)
(* an f-string is a sequence of its segments, so that "wraps the reason"   *)
(* is a statement about the last segments of the message.  The two PDF     *)
(* libraries and the OpenAI client are the environment: each call either   *)
(* raises or returns a value drawn from a small set.                       *)
(***************************************************************************)
EXTENDS Integers, Sequences, FiniteSets, TLC

VARIABLES
    pc,              \* position of the request inside its handler
    op,              \* "summary" | "questions" | "extract" (which route)
    file,            \* the UploadFile: [filename |-> str]
    size,            \* len(file_content)
    num_questions,   \* Form field of /upload/questions
    calls,           \* log of collaborator calls: "primary", "secondary", "generate"
    num_pages,       \* len(doc) / len(pdf.pages) of the decoder in progress
    text,            \* the accumulator `text` of extract_text_from_pdf
    primOut,         \* pages returned so far by page.get_text() (PyMuPDF)
    primRaised,      \* the PyMuPDF block raised
    secOut,          \* pages returned so far by page.extract_text() (pdfplumber)
    secRaised,       \* the pdfplumber block raised (a library error)
    extracted_text,  \* the handler's local `extracted_text`
    extractOutcome,  \* "none" | "text" | "failed": how extract_text_from_pdf ended
    genContent,      \* response.choices[0].message.content
    genRaised,       \* the generation call raised
    artifact,        \* the summary (str) or the question list
    response,        \* the HTTP response: [status, body]
    failures         \* number of error responses produced for the request

vars == <<pc, op, file, size, num_questions, calls, num_pages, text, primOut,
          primRaised, secOut, secRaised, extracted_text, extractOutcome,
          genContent, genRaised, artifact, response, failures>>

----------------------------------------------------------------------------
(* Bounds of the model *)

MaxPages == 2

MaxResponseLen == 5

----------------------------------------------------------------------------
(* Program constants *)

MAX_FILE_SIZE_MB == 70

MAX_FILE_SIZE_BYTES == MAX_FILE_SIZE_MB * 1024 * 1024

PreviewLen == 200

MinQuestions == 1

MaxQuestions == 50

----------------------------------------------------------------------------
(* str operations *)

Whitespace == {" ", "\n", "\t"}

NL == <<"\n">>

RECURSIVE LStrip(_)
LStrip(s) ==
    IF s = <<>> THEN s
    ELSE IF Head(s) \in Whitespace THEN LStrip(Tail(s)) ELSE s

RECURSIVE RStrip(_)
RStrip(s) ==
    IF s = <<>> THEN s
    ELSE IF s[Len(s)] \in Whitespace THEN RStrip(SubSeq(s, 1, Len(s) - 1)) ELSE s

\* str.strip()
Strip(s) == RStrip(LStrip(s))

\* str.startswith(p)
StartsWith(s, p) == Len(s) >= Len(p) /\ SubSeq(s, 1, Len(p)) = p

\* str.endswith(p)
EndsWith(s, p) == Len(s) >= Len(p) /\ SubSeq(s, Len(s) - Len(p) + 1, Len(s)) = p

\* s[:n]
Prefix(s, n) == SubSeq(s, 1, IF Len(s) < n THEN Len(s) ELSE n)

\* s[-n:]
Suffix(s, n) == SubSeq(s, (IF Len(s) < n THEN 0 ELSE Len(s) - n) + 1, Len(s))

\* str.split('\n'): always at least one piece
RECURSIVE SplitFrom(_, _, _)
SplitFrom(s, i, cur) ==
    IF i > Len(s) THEN <<cur>>
    ELSE IF s[i] = "\n" THEN <<cur>> \o SplitFrom(s, i + 1, <<>>)
    ELSE SplitFrom(s, i + 1, Append(cur, s[i]))

SplitLines(s) == SplitFrom(s, 1, <<>>)

\* len(s.split()): the number of maximal runs of non-whitespace characters
WordCount(s) ==
    Cardinality({i \in 1..Len(s) :
        /\ s[i] \notin Whitespace
        /\ (i = 1 \/ s[i - 1] \in Whitespace)})

CidPrefix == <<"(", "c", "i", "d", ":">>

PdfExtension == <<".", "p", "d", "f">>

Ellipsis == <<".", ".", ".">>

----------------------------------------------------------------------------
(* Exceptions and messages *)

HTTPException(status, detail) == [kind |-> "HTTPException", status |-> status, msg |-> detail]

Exception(msg) == [kind |-> "Exception", status |-> 0, msg |-> msg]

NoException == [kind |-> "none", status |-> 0, msg |-> <<>>]

\* str(e): Starlette renders an HTTPException as "<status_code>: <detail>"
StrOf(exc) ==
    IF exc.kind = "HTTPException"
    THEN <<ToString(exc.status), ": ">> \o exc.msg
    ELSE exc.msg

MsgNoFile == <<"No file uploaded">>

MsgOnlyPdf == <<"Only PDF files are allowed">>

MsgFileSize == <<"File size exceeds ", ToString(MAX_FILE_SIZE_MB), " MB limit">>

MsgNumQuestions == <<"Number of questions must be between 1 and 50">>

MsgNoText ==
    <<"No text could be extracted from the PDF. The PDF might be image-based or scanned.">>

PrefixExtract == <<"Error extracting text from PDF: ">>

PrefixSummary == <<"Error generating summary with OpenAI: ">>

PrefixQuestions == <<"Error generating questions with OpenAI: ">>

PrefixProcessing == <<"Error processing PDF: ">>

PrefixTest == <<"Error: ">>

\* what pdfplumber and the OpenAI client say when they raise (what PyMuPDF
\* says is only printed)
SecondaryErrors == {<<"pdfplumber: No /Root object">>}

GenerationErrors == {<<"openai: connection error">>}

----------------------------------------------------------------------------
(* Inputs *)

\* no file: FastAPI's File(...) answers such a request before the handler runs
NoFile == [filename |-> <<>>, supplied |-> FALSE]

Upload(name) == [filename |-> name, supplied |-> TRUE]

Filenames ==
    { <<"a">> \o PdfExtension,
      <<"a", ".", "t", "x", "t">>,
      <<"a", ".", "P", "D", "F">> }

FileSizes == {MAX_FILE_SIZE_BYTES, MAX_FILE_SIZE_BYTES + 1}

QuestionCounts == {0, 1, 50, 51}

LongPage == [i \in 1..(PreviewLen - 2) |-> "a"]

\* what a decoder can return for one page
PageTexts ==
    { <<>>, <<" ">>, <<"b">>, CidPrefix \o <<"1", ")">>, LongPage }

\* message.content of the summary call
SummaryContents == { <<" ", "S", "\n">>, <<"S", " ", "T">> }

\* message.content of the questions call
QuestionContents ==
    { <<"Q", "\n", "\n", " ", "R", " ", "\n">>, <<" ", "\n">> }

----------------------------------------------------------------------------
(* The handlers' pure parts *)

\* validate_pdf_upload: the exception it raises, if any
validate_pdf_upload(f) ==
    IF ~f.supplied THEN HTTPException(400, MsgNoFile)
    ELSE IF ~EndsWith(f.filename, PdfExtension) THEN HTTPException(400, MsgOnlyPdf)
    ELSE NoException

\* upload_questions: num_questions < 1 or num_questions > 50
NumQuestionsOutOfRange(n) == n < MinQuestions \/ n > MaxQuestions

\* len(file_content) > MAX_FILE_SIZE_BYTES
FileTooLarge(n) == n > MAX_FILE_SIZE_BYTES

\* FastAPI's rendering of a raised HTTPException: the status and {"detail": ...}
ErrorResponse(status, detail) == [status |-> status, body |-> [detail |-> detail]]

\* the except clauses of upload_summary and upload_questions
ExceptUpload(exc) ==
    IF exc.kind = "HTTPException"
    THEN ErrorResponse(exc.status, exc.msg)
    ELSE ErrorResponse(500, PrefixProcessing \o StrOf(exc))

\* the except clause of test_extract
ExceptTest(exc) ==
    ErrorResponse(500, PrefixTest \o StrOf(exc))

HandlerExcept(o, exc) == IF o = "extract" THEN ExceptTest(exc) ELSE ExceptUpload(exc)

\* TextPreview with `>=` for `>`: a text of exactly 200 characters gets the ellipsis
TextPreviewOffByOne(t) ==
    IF Len(t) >= PreviewLen THEN Prefix(t, PreviewLen) \o Ellipsis ELSE t

\* extracted_text[:200] + "..." if len(extracted_text) > 200 else extracted_text
TextPreview(t) ==
    IF Len(t) > PreviewLen THEN Prefix(t, PreviewLen) \o Ellipsis ELSE t

\* QualityGate with the `not` of the placeholder test dropped
QualityGateInverted(t) == Strip(t) # <<>> /\ StartsWith(Strip(t), CidPrefix)

\* the check of the primary decoder's accumulated text
QualityGate(t) == Strip(t) # <<>> /\ ~StartsWith(Strip(t), CidPrefix)

\* text += page_text + "\n", for a page with text
AddPage(t, page_text) == IF page_text # <<>> THEN t \o page_text \o NL ELSE t

SelectNonBlank(lines) == SelectSeq(lines, LAMBDA q : Strip(q) # <<>>)

StripEach(lines) == [i \in 1..Len(lines) |-> Strip(lines[i])]

\* ParseQuestions without the `if q.strip()` filter: blank lines are kept
ParseQuestionsKeepingBlanks(content) == StripEach(SplitLines(Strip(content)))

\* generate_questions: the list parsed from the collaborator's response
ParseQuestions(content) ==
    LET questions_text == Strip(content)
        questions == StripEach(SelectNonBlank(SplitLines(questions_text)))
    IN  SelectSeq(questions, LAMBDA q : q # <<>>)

NoResponse == [status |-> 0, body |-> [detail |-> <<>>]]

SummaryBody(t, summary) ==
    [success |-> TRUE, filename |-> file.filename, summary |-> summary,
     extracted_chars |-> Len(t), text_preview |-> TextPreview(t)]

QuestionsBody(t, questions) ==
    [success |-> TRUE, filename |-> file.filename, questions |-> questions,
     num_questions |-> num_questions,
     extracted_chars |-> Len(t), text_preview |-> TextPreview(t)]

ExtractBody(t) ==
    [success |-> TRUE, filename |-> file.filename,
     total_characters |-> Len(t), total_words |-> WordCount(t),
     first_500_chars |-> Prefix(t, 500),
     last_500_chars |-> IF Len(t) > 500 THEN Suffix(t, 500) ELSE t,
     full_text_length |-> Len(t)]

\* JSONResponse(content=body)
Success(body) == [status |-> 200, body |-> body]

----------------------------------------------------------------------------
(* State *)

request == <<op, file, size, num_questions>>

engine == <<num_pages, text, primOut, primRaised, secOut, secRaised>>

generation == <<genContent, genRaised, artifact>>

Init ==
    /\ pc = "validate"
    /\ op \in {"summary", "questions", "extract"}
    /\ file \in {Upload(n) : n \in Filenames}
    /\ size \in FileSizes
    /\ num_questions \in QuestionCounts
    /\ calls = <<>>
    /\ num_pages = 0
    /\ text = <<>>
    /\ primOut = <<>>
    /\ primRaised = FALSE
    /\ secOut = <<>>
    /\ secRaised = FALSE
    /\ extracted_text = <<>>
    /\ extractOutcome = "none"
    /\ genContent = <<>>
    /\ genRaised = FALSE
    /\ artifact = <<>>
    /\ response = NoResponse
    /\ failures = 0

\* an exception reaches the handler's except clause: the request ends
Raise(exc) ==
    /\ response' = HandlerExcept(op, exc)
    /\ failures' = failures + 1
    /\ pc' = "done"

\* where each handler goes once extract_text_from_pdf has returned
AfterExtraction ==
    CASE op = "summary" -> "generate_summary"
      [] op = "questions" -> "generate_questions"
      [] OTHER -> "respond"

----------------------------------------------------------------------------
(* Validation: the head of the three handlers *)

ValidateUpload ==
    /\ pc = "validate"
    /\ LET exc == validate_pdf_upload(file) IN
         IF exc # NoException
         THEN Raise(exc)
         ELSE /\ pc' = IF op = "questions" THEN "check_num" ELSE "read"
              /\ UNCHANGED <<response, failures>>
    /\ UNCHANGED <<request, calls, engine, extracted_text, extractOutcome, generation>>

\* CheckNumQuestions placed after the size check: size is tested before the count
CheckNumQuestionsAfterSize ==
    /\ pc = "check_num"
    /\ IF FileTooLarge(size)
       THEN Raise(HTTPException(400, MsgFileSize))
       ELSE IF NumQuestionsOutOfRange(num_questions)
       THEN Raise(HTTPException(400, MsgNumQuestions))
       ELSE /\ pc' = "read"
            /\ UNCHANGED <<response, failures>>
    /\ UNCHANGED <<request, calls, engine, extracted_text, extractOutcome, generation>>

\* upload_questions only, before the file is read
CheckNumQuestions ==
    /\ pc = "check_num"
    /\ IF NumQuestionsOutOfRange(num_questions)
       THEN Raise(HTTPException(400, MsgNumQuestions))
       ELSE /\ pc' = "read"
            /\ UNCHANGED <<response, failures>>
    /\ UNCHANGED <<request, calls, engine, extracted_text, extractOutcome, generation>>

\* file_content = await file.read(), then the size check
ReadFile ==
    /\ pc = "read"
    /\ IF FileTooLarge(size)
       THEN Raise(HTTPException(400, MsgFileSize))
       ELSE /\ pc' = "primary_open"
            /\ UNCHANGED <<response, failures>>
    /\ UNCHANGED <<request, calls, engine, extracted_text, extractOutcome, generation>>

----------------------------------------------------------------------------
(* extract_text_from_pdf *)

\* fitz.open(...): raises, or a document of some number of pages
PrimaryOpen ==
    /\ pc = "primary_open"
    /\ calls' = Append(calls, "primary")
    /\ text' = <<>>
    /\ \/ /\ primRaised' = TRUE
          /\ pc' = "secondary_open"
          /\ UNCHANGED num_pages
       \/ /\ num_pages' \in 0..MaxPages
          /\ pc' = "primary_page"
          /\ UNCHANGED primRaised
    /\ UNCHANGED <<request, primOut, secOut, secRaised, extracted_text,
                   extractOutcome, generation, response, failures>>

\* one turn of the loop over the pages: page.get_text() raises or returns
PrimaryPage ==
    /\ pc = "primary_page"
    /\ Len(primOut) < num_pages
    /\ \/ /\ primRaised' = TRUE
          /\ pc' = "secondary_open"
          /\ UNCHANGED <<text, primOut>>
       \/ \E page_text \in PageTexts :
            /\ primOut' = Append(primOut, page_text)
            /\ text' = AddPage(text, page_text)
            /\ UNCHANGED <<pc, primRaised>>
    /\ UNCHANGED <<request, calls, num_pages, secOut, secRaised, extracted_text,
                   extractOutcome, generation, response, failures>>

\* after the loop: doc.close() raises, or the primary text is accepted, or it
\* is not and pdfplumber is tried
PrimaryGate ==
    /\ pc = "primary_page"
    /\ Len(primOut) = num_pages
    /\ \/ /\ primRaised' = TRUE
          /\ pc' = "secondary_open"
          /\ UNCHANGED <<extracted_text, extractOutcome>>
       \/ /\ IF QualityGate(text)
             THEN /\ extracted_text' = Strip(text)
                  /\ extractOutcome' = "text"
                  /\ pc' = AfterExtraction
             ELSE /\ pc' = "secondary_open"
                  /\ UNCHANGED <<extracted_text, extractOutcome>>
          /\ UNCHANGED primRaised
    /\ UNCHANGED <<request, calls, num_pages, text, primOut, secOut, secRaised,
                   generation, response, failures>>

\* ExtractionError that drops str(e): every failure reads the same
ExtractionErrorWithoutReason(e) == Exception(PrefixExtract)

\* the exception extract_text_from_pdf raises out of its second try block
ExtractionError(e) == Exception(PrefixExtract \o StrOf(e))

\* NoTextExtracted testing the untrimmed accumulator: `if not text`
NoTextExtractedUntrimmed(t) == t = <<>>

\* if not text.strip()
NoTextExtracted(t) == Strip(t) = <<>>

\* SecondaryOpen without the reset `text = ""`: the accumulator is reused
SecondaryOpenReusingText ==
    /\ pc = "secondary_open"
    /\ calls' = Append(calls, "secondary")
    /\ \/ \E m \in SecondaryErrors :
            /\ secRaised' = TRUE
            /\ extractOutcome' = "failed"
            /\ Raise(ExtractionError(Exception(m)))
            /\ UNCHANGED num_pages
       \/ /\ num_pages' \in 0..MaxPages
          /\ pc' = "secondary_page"
          /\ UNCHANGED <<secRaised, extractOutcome, response, failures>>
    /\ UNCHANGED <<request, text, primOut, primRaised, secOut, extracted_text, generation>>

\* text = "" and pdfplumber.open(...): raises, or a document
SecondaryOpen ==
    /\ pc = "secondary_open"
    /\ calls' = Append(calls, "secondary")
    /\ text' = <<>>
    /\ \/ \E m \in SecondaryErrors :
            /\ secRaised' = TRUE
            /\ extractOutcome' = "failed"
            /\ Raise(ExtractionError(Exception(m)))
            /\ UNCHANGED num_pages
       \/ /\ num_pages' \in 0..MaxPages
          /\ pc' = "secondary_page"
          /\ UNCHANGED <<secRaised, extractOutcome, response, failures>>
    /\ UNCHANGED <<request, primOut, primRaised, secOut, extracted_text, generation>>

\* one turn of the loop over pdf.pages: page.extract_text() raises or returns
SecondaryPage ==
    /\ pc = "secondary_page"
    /\ Len(secOut) < num_pages
    /\ \/ \E m \in SecondaryErrors :
            /\ secRaised' = TRUE
            /\ extractOutcome' = "failed"
            /\ Raise(ExtractionError(Exception(m)))
            /\ UNCHANGED <<text, secOut>>
       \/ \E page_text \in PageTexts :
            /\ secOut' = Append(secOut, page_text)
            /\ text' = AddPage(text, page_text)
            /\ UNCHANGED <<pc, secRaised, extractOutcome, response, failures>>
    /\ UNCHANGED <<request, calls, num_pages, primOut, primRaised, extracted_text,
                   generation>>

\* after the loop: leaving the `with` block raises, or there is no text (a
\* ValueError, caught and wrapped like any other), or the text is returned
SecondaryCheck ==
    /\ pc = "secondary_page"
    /\ Len(secOut) = num_pages
    /\ \/ \E m \in SecondaryErrors :
            /\ secRaised' = TRUE
            /\ extractOutcome' = "failed"
            /\ Raise(ExtractionError(Exception(m)))
            /\ UNCHANGED extracted_text
       \/ /\ IF NoTextExtracted(text)
             THEN /\ extractOutcome' = "failed"
                  /\ Raise(ExtractionError(Exception(MsgNoText)))
                  /\ UNCHANGED extracted_text
             ELSE /\ extracted_text' = Strip(text)
                  /\ extractOutcome' = "text"
                  /\ pc' = AfterExtraction
                  /\ UNCHANGED <<response, failures>>
          /\ UNCHANGED secRaised
    /\ UNCHANGED <<request, calls, num_pages, text, primOut, primRaised, secOut,
                   generation>>

----------------------------------------------------------------------------
(* The tail of the three handlers *)

\* GenerateSummary that calls the collaborator again after a failed call
GenerateSummaryRetrying ==
    /\ pc = "generate_summary"
    /\ calls' = Append(calls, "generate")
    /\ \/ /\ genRaised' = TRUE
          /\ UNCHANGED <<pc, genContent, artifact, response, failures>>
       \/ \E content \in SummaryContents :
            /\ genContent' = content
            /\ artifact' = Strip(content)
            /\ response' = Success(SummaryBody(extracted_text, Strip(content)))
            /\ pc' = "done"
            /\ UNCHANGED <<genRaised, failures>>
    /\ UNCHANGED <<request, engine, extracted_text, extractOutcome>>

\* generate_summary and the success response of upload_summary
GenerateSummary ==
    /\ pc = "generate_summary"
    /\ calls' = Append(calls, "generate")
    /\ \/ \E m \in GenerationErrors :
            /\ genRaised' = TRUE
            /\ Raise(Exception(PrefixSummary \o m))
            /\ UNCHANGED <<genContent, artifact>>
       \/ \E content \in SummaryContents :
            /\ genContent' = content
            /\ artifact' = Strip(content)
            /\ response' = Success(SummaryBody(extracted_text, Strip(content)))
            /\ pc' = "done"
            /\ UNCHANGED <<genRaised, failures>>
    /\ UNCHANGED <<request, engine, extracted_text, extractOutcome>>

\* generate_questions and the success response of upload_questions
GenerateQuestions ==
    /\ pc = "generate_questions"
    /\ calls' = Append(calls, "generate")
    /\ \/ \E m \in GenerationErrors :
            /\ genRaised' = TRUE
            /\ Raise(Exception(PrefixQuestions \o m))
            /\ UNCHANGED <<genContent, artifact>>
       \/ \E content \in QuestionContents :
            /\ genContent' = content
            /\ artifact' = ParseQuestions(content)
            /\ response' = Success(QuestionsBody(extracted_text, ParseQuestions(content)))
            /\ pc' = "done"
            /\ UNCHANGED <<genRaised, failures>>
    /\ UNCHANGED <<request, engine, extracted_text, extractOutcome>>

\* the success response of test_extract
RespondExtract ==
    /\ pc = "respond"
    /\ response' = Success(ExtractBody(extracted_text))
    /\ pc' = "done"
    /\ UNCHANGED <<request, calls, engine, extracted_text, extractOutcome,
                   generation, failures>>

Next ==
    \/ ValidateUpload
    \/ CheckNumQuestions
    \/ ReadFile
    \/ PrimaryOpen
    \/ PrimaryPage
    \/ PrimaryGate
    \/ SecondaryOpen
    \/ SecondaryPage
    \/ SecondaryCheck
    \/ GenerateSummary
    \/ GenerateQuestions
    \/ RespondExtract

Spec == Init /\ [][Next]_vars

----------------------------------------------------------------------------
(* generate_questions as a function of the collaborator's response alone *)

ResponseAlphabet == {"Q", "R", " ", "\n"}

ResponseTexts == UNION {[1..n -> ResponseAlphabet] : n \in 0..MaxResponseLen}

InitQuestions ==
    /\ pc = "questions_text"
    /\ genContent \in ResponseTexts
    /\ op = "questions"
    /\ file = Upload(<<"a">> \o PdfExtension)
    /\ size = 0
    /\ num_questions = MinQuestions
    /\ calls = <<"generate">>
    /\ num_pages = 0
    /\ text = <<>>
    /\ primOut = <<>>
    /\ primRaised = FALSE
    /\ secOut = <<>>
    /\ secRaised = FALSE
    /\ extracted_text = <<>>
    /\ extractOutcome = "none"
    /\ genRaised = FALSE
    /\ artifact = <<>>
    /\ response = NoResponse
    /\ failures = 0

\* lines 237-243 of generate_questions applied to the response
ParseResponse ==
    /\ pc = "questions_text"
    /\ artifact' = ParseQuestions(genContent)
    /\ pc' = "questions_list"
    /\ UNCHANGED <<request, calls, engine, extracted_text, extractOutcome,
                   genContent, genRaised, response, failures>>

NextQuestions == ParseResponse

SpecQuestions == InitQuestions /\ [][NextQuestions]_vars

----------------------------------------------------------------------------
(* Vocabulary of the properties *)

Done == pc = "done"

WrongExtension == ~EndsWith(file.filename, <<".", "p", "d", "f">>)

Oversized == size > 70 * 1024 * 1024

BadQuestionCount == op = "questions" /\ (num_questions < 1 \/ num_questions > 50)

ValidationFailed == WrongExtension \/ Oversized \/ BadQuestionCount

\* the error description of the response, empty for a success envelope
Detail == IF "detail" \in DOMAIN response.body THEN response.body.detail ELSE <<>>

Count(log, what) == Cardinality({i \in 1..Len(log) : log[i] = what})

\* per-page output joined: each page that has text, terminated by a newline
RECURSIVE Joined(_)
Joined(pages) ==
    IF pages = <<>> THEN <<>>
    ELSE LET last == pages[Len(pages)] IN
         Joined(SubSeq(pages, 1, Len(pages) - 1))
            \o (IF Len(last) > 0 THEN last \o <<"\n">> ELSE <<>>)

\* a text without its leading and trailing whitespace: what lies between its
\* first and its last character that is not whitespace
Trimmed(s) ==
    LET Blank(i) == s[i] \in {" ", "\n", "\t"}
        RECURSIVE FirstFrom(_)
        FirstFrom(i) == IF i <= Len(s) /\ Blank(i) THEN FirstFrom(i + 1) ELSE i
        RECURSIVE LastFrom(_)
        LastFrom(i) == IF i >= 1 /\ Blank(i) THEN LastFrom(i - 1) ELSE i
    IN  SubSeq(s, FirstFrom(1), LastFrom(Len(s)))

PlaceholderPrefixed(s) ==
    /\ Len(s) >= 5
    /\ <<s[1], s[2], s[3], s[4], s[5]>> = <<"(", "c", "i", "d", ":">>

ExtractionEnded == extractOutcome # "none"

PrimaryText == Trimmed(Joined(primOut))

SecondaryText == Trimmed(Joined(secOut))

\* the primary decoder raised, or gave empty or placeholder-prefixed text
PrimaryUnusable ==
    primRaised \/ LET t == PrimaryText IN t = <<>> \/ PlaceholderPrefixed(t)

----------------------------------------------------------------------------
(* C1: in each of the three upload operations a validation failure (wrong  *)
(* extension, more than 70 MiB, or a question count outside [1,50]) ends   *)
(* the request with status 400 reporting the violated constraint, and no   *)
(* decoder and no generation call is made.                                 *)
C1_ValidationRejectsWith400 ==
    (Done /\ ValidationFailed) =>
        /\ response.status = 400
        /\ Detail \in {MsgOnlyPdf, MsgFileSize, MsgNumQuestions}
        /\ calls = <<>>

(* C2: when the primary decoder raised, or gave empty or placeholder-      *)
(* prefixed trimmed text, the secondary decoder is invoked exactly once    *)
(* with a fresh accumulator, and on success the result is the secondary    *)
(* decoder's trimmed output: nothing the primary accumulated is in it.     *)
C2_FallbackUsesSecondaryOnly ==
    /\ pc = "secondary_page" => text = Joined(secOut)
    /\ (ExtractionEnded /\ PrimaryUnusable) =>
          /\ Count(calls, "secondary") = 1
          /\ extractOutcome = "text" => extracted_text = SecondaryText

\* the primary decoder accumulated text and then raised; the secondary succeeded
C2_Witness ==
    /\ extractOutcome = "text"
    /\ primRaised
    /\ Joined(primOut) # <<>>
    /\ extracted_text = SecondaryText
    /\ extracted_text # PrimaryText

(* C3: when the primary decoder completes without error and its trimmed    *)
(* text is non-empty and not placeholder-prefixed, the result is exactly   *)
(* that trimmed, newline-joined per-page text and the secondary decoder is *)
(* never invoked.                                                          *)
C3_PrimaryAccepted ==
    (/\ ExtractionEnded
     /\ ~primRaised
     /\ PrimaryText # <<>>
     /\ ~PlaceholderPrefixed(PrimaryText)) =>
        /\ extractOutcome = "text"
        /\ extracted_text = PrimaryText
        /\ Count(calls, "secondary") = 0

\* a primary text of two pages, trimmed at both ends, was accepted
C3_Witness ==
    /\ extractOutcome = "text"
    /\ ~primRaised
    /\ primOut = << <<" ">>, <<"b">> >>
    /\ extracted_text = <<"b">>
    /\ calls = <<"primary">>

(* C4: whatever the two decoders do, extraction either returns a non-empty *)
(* string without leading or trailing whitespace or signals failure; when  *)
(* both decoders yield empty trimmed text it signals failure.              *)
C4_NeverEmptySuccess ==
    /\ extractOutcome = "text" =>
          /\ Len(extracted_text) > 0
          /\ extracted_text[1] \notin {" ", "\n", "\t"}
          /\ extracted_text[Len(extracted_text)] \notin {" ", "\n", "\t"}
    /\ (/\ ExtractionEnded
        /\ ~primRaised /\ ~secRaised
        /\ PrimaryText = <<>> /\ SecondaryText = <<>>) => extractOutcome = "failed"
    /\ (pc \in {"generate_summary", "generate_questions", "respond"} \/ response.status = 200)
          => extractOutcome = "text"

\* both decoders returned only whitespace pages: failure, not an empty success
C4_Witness ==
    /\ extractOutcome = "failed"
    /\ ~primRaised /\ ~secRaised
    /\ primOut = << <<" ">> >>
    /\ secOut = << <<" ">>, <<>> >>

(* C5 as stated: the validations run in the order file supplied, filename *)
(* extension, byte length, question count, and a produce-questions request *)
(* violating several of them is rejected for the first one in that order   *)
(* (an oversized file with a question count of 0: for its size).           *)
C5_ExtensionSizeCountOrder ==
    (Done /\ op = "questions" /\ ValidationFailed) =>
        Detail = (IF WrongExtension THEN MsgOnlyPdf
                  ELSE IF Oversized THEN MsgFileSize
                  ELSE MsgNumQuestions)

(* C5 amended: a produce-questions request is validated in the order file  *)
(* supplied, filename extension, question count, byte length (the other    *)
(* two operations: file supplied, extension, byte length); the constraint  *)
(* reported is the first violated one in that order, and a request that    *)
(* violates none is not rejected with status 400.                          *)
C5_ExtensionCountSizeOrder ==
    /\ (Done /\ op = "questions" /\ ValidationFailed) =>
          /\ response.status = 400
          /\ Detail = (IF WrongExtension THEN MsgOnlyPdf
                       ELSE IF BadQuestionCount THEN MsgNumQuestions
                       ELSE MsgFileSize)
    /\ (Done /\ op # "questions" /\ ValidationFailed) =>
          EndsWith(Detail, IF WrongExtension THEN MsgOnlyPdf ELSE MsgFileSize)
    /\ (Done /\ ~ValidationFailed) => response.status # 400

\* an oversized file with a question count of 0 is rejected for its count
C5_Witness ==
    /\ Done
    /\ op = "questions"
    /\ ~WrongExtension /\ Oversized /\ num_questions = 0
    /\ response.status = 400
    /\ Detail = MsgNumQuestions

(* C6: in a request that passed validation, an extraction failure or a     *)
(* generation failure ends the request with a 500 response wrapping the    *)
(* underlying reason, never a success envelope or a partial result; and a  *)
(* validation error is never turned into that 500 response.                *)
C6_ProcessingErrorsOnly ==
    Done =>
        /\ (~ValidationFailed /\ (extractOutcome = "failed" \/ genRaised)) =>
              /\ response.status = 500
              /\ DOMAIN response.body = {"detail"}
              /\ \/ \E m \in SecondaryErrors \cup {MsgNoText} : EndsWith(Detail, m)
                 \/ \E m \in GenerationErrors : EndsWith(Detail, m)
        /\ ValidationFailed => response.status # 500

(* C7: within one request the generation collaborator is called at most    *)
(* once, only after every validation passed and extraction returned text,  *)
(* never again after it failed (one failed call, one error response) and   *)
(* never in an extract-only request; each decoder is attempted at most     *)
(* once, the secondary never before the primary.                           *)
C7_CallsAtMostOnceInOrder ==
    /\ calls \in { <<>>, <<"primary">>, <<"primary", "secondary">>,
                   <<"primary", "generate">>,
                   <<"primary", "secondary", "generate">> }
    /\ Count(calls, "generate") > 0 =>
          /\ ~ValidationFailed
          /\ extractOutcome = "text"
          /\ op # "extract"
    /\ genRaised =>
          /\ Done
          /\ failures = 1
          /\ response.status = 500
    /\ failures <= 1

\* the single generation call failed after a fallback extraction
C7_Witness ==
    /\ Done
    /\ genRaised
    /\ calls = <<"primary", "secondary", "generate">>
    /\ failures = 1

(* C8: in a success response of produce-summary or produce-questions,      *)
(* text_preview is the first 200 characters of the extracted text followed *)
(* by "..." when the text is longer than 200 characters and the whole text *)
(* otherwise; extracted_chars is the length of the whole text.             *)
C8_TextPreview ==
    (Done /\ response.status = 200 /\ op \in {"summary", "questions"}) =>
        LET t == IF Count(calls, "secondary") = 0 THEN PrimaryText ELSE SecondaryText
            b == response.body
        IN  /\ Len(t) > 200 =>
                 /\ Len(b.text_preview) = 203
                 /\ \A i \in 1..200 : b.text_preview[i] = t[i]
                 /\ \A i \in 201..203 : b.text_preview[i] = "."
            /\ Len(t) <= 200 => b.text_preview = t
            /\ b.extracted_chars = Len(t)

\* a truncated preview
C8_Witness ==
    /\ Done /\ response.status = 200 /\ op = "questions"
    /\ Len(extracted_text) > 200
    /\ Len(response.body.text_preview) = 203

\* the lines of a text: the maximal runs without a newline, in order
LinesOf(s) ==
    LET breaks == {i \in 1..Len(s) : s[i] = "\n"}
        starts == {1} \cup {i + 1 : i \in breaks}
        EndOf(a) == IF \E b \in breaks : b >= a
                    THEN (CHOOSE b \in breaks : b >= a /\ \A c \in breaks : c >= a => b <= c) - 1
                    ELSE Len(s)
        RECURSIVE From(_)
        From(a) == <<SubSeq(s, a, EndOf(a))>>
                      \o (IF EndOf(a) < Len(s) THEN From(EndOf(a) + 2) ELSE <<>>)
    IN  From(1)

IsBlank(line) == \A i \in 1..Len(line) : line[i] \in {" ", "\n", "\t"}

NonBlankLinesOf(s) == SelectSeq(LinesOf(s), LAMBDA line : ~IsBlank(line))

(* C9 as stated: the question list has no blank entry and holds every      *)
(* non-blank line of the collaborator's response, in the original order,   *)
(* none dropped, duplicated or reordered.                                  *)
C9_LinesPreserved ==
    pc = "questions_list" =>
        /\ \A i \in 1..Len(artifact) : ~IsBlank(artifact[i])
        /\ artifact = NonBlankLinesOf(genContent)

(* C9 amended: the question list has no blank entry and holds every        *)
(* non-blank line of the collaborator's response, each trimmed of its      *)
(* leading and trailing whitespace, in the original order, none dropped,   *)
(* duplicated or reordered.                                                *)
C9_TrimmedLinesPreserved ==
    pc = "questions_list" =>
        /\ \A i \in 1..Len(artifact) : ~IsBlank(artifact[i])
        /\ Len(artifact) = Len(NonBlankLinesOf(genContent))
        /\ \A i \in 1..Len(artifact) : artifact[i] = Trimmed(NonBlankLinesOf(genContent)[i])

\* two questions around a blank line, the second one indented
C9_Witness ==
    /\ pc = "questions_list"
    /\ genContent = <<"Q", "\n", "\n", " ", "R">>
    /\ artifact = << <<"Q">>, <<"R">> >>

(* C10 as stated: extraction fails only when both decoders throw or both   *)
(* produce empty output; a failure is reported exactly once, with the "no  *)
(* text could be extracted" reason when no text layer is present and a     *)
(* decode-error reason when the decoders raised.  "Both" is read widely    *)
(* here: each decoder either raised or produced empty output.              *)
C10_FailsOnlyWhenBothFail ==
    extractOutcome = "failed" =>
        /\ primRaised \/ PrimaryText = <<>>
        /\ secRaised \/ SecondaryText = <<>>
        /\ failures = 1
        /\ IF secRaised
           THEN \E m \in SecondaryErrors : EndsWith(Detail, PrefixExtract \o m)
           ELSE EndsWith(Detail, PrefixExtract \o MsgNoText)

(* C10 amended: extraction fails exactly when the primary decoder raised   *)
(* or gave empty or placeholder-prefixed text and the secondary decoder    *)
(* raised or gave empty text; a failure is reported exactly once, with the *)
(* "no text could be extracted" reason when the secondary decoder finished *)
(* without text and a decode-error reason carrying the decoder's message   *)
(* when the secondary decoder raised.                                      *)
C10_FailureCasesAndReasons ==
    /\ ExtractionEnded =>
          (extractOutcome = "failed"
              <=> (PrimaryUnusable /\ (secRaised \/ SecondaryText = <<>>)))
    /\ extractOutcome = "failed" =>
          /\ Done
          /\ failures = 1
          /\ response.status = 500
          /\ IF secRaised
             THEN \E m \in SecondaryErrors : EndsWith(Detail, PrefixExtract \o m)
             ELSE EndsWith(Detail, PrefixExtract \o MsgNoText)

\* placeholder codes from the primary decoder, no text from the secondary
C10_Witness ==
    /\ extractOutcome = "failed"
    /\ ~primRaised /\ ~secRaised
    /\ PlaceholderPrefixed(PrimaryText)
    /\ SecondaryText = <<>>
    /\ EndsWith(Detail, MsgNoText)

====
